---- MODULE Spec2Model ----
(***************************************************************************)
(* Model of the planning run of src/app.py (FBA Smart Supply Planner).     *)
(*                                                                         *)
(* One run is a straight pipeline over two uploaded tables:                *)
(*   clean sales -> sales window -> stock aggregates -> demand by channel  *)
(*   -> channel planning table -> site planning table.                     *)
(* Each stage is one action; pc names the next stage to run.               *)
(*                                                                         *)
(* Numbers.  pandas computes in float64; the model computes in exact       *)
(* arithmetic.  A fraction is a pair <<n, d>> with d > 0.  A column that   *)
(* can hold NaN holds cells: <<>> for NaN, <<v>> for the value v.          *)
(* A standard deviation and a safety stock are square roots, so they are   *)
(* kept by their squares (a fraction) and compared by squaring.            *)
(* Timestamps are whole hours since an epoch; NaT is -1.                   *)
(***************************************************************************)
EXTENDS Integers, Sequences, FiniteSets, TLC

VARIABLES
    pc,                   \* next stage of the run
    planning_days,        \* st.number_input "Planning Days"
    service_level,        \* st.selectbox "Service Level"
    planning_basis,       \* st.selectbox "Planning Based On"
    sales,                \* the sales table (rows of the MTR files)
    inv,                  \* the inventory ledger table
    uploaded_sales_days,
    hist_sales_df,
    history_window_days,
    sku_stock_all,
    stock_by_ft,
    stock_by_site,
    hist_sales_ft,
    full_sales_ft,
    daily_sales_ft,
    std_dev_ft,
    plan_ft,
    site_plan

vars == <<pc, planning_days, service_level, planning_basis, sales, inv,
          uploaded_sales_days, hist_sales_df, history_window_days,
          sku_stock_all, stock_by_ft, stock_by_site,
          hist_sales_ft, full_sales_ft, daily_sales_ft, std_dev_ft,
          plan_ft, site_plan>>

----------------------------------------------------------------------------
(* Bounds of the model *)

\* most rows in the sales table
MaxSales == 2
\* most rows in the inventory table
MaxInv == 2
\* largest quantity of one sales row
MaxQty == 2
\* largest ending balance of one inventory row
MaxBal == 2

----------------------------------------------------------------------------
(* Program constants *)

HoursPerDay == 24
MinPlanningDays == 7

NaT == -1
NaN == <<>>

FULL == "Total Sales (full history)"
LAST30 == "Last 30 Days"
LAST60 == "Last 60 Days"
LAST90 == "Last 90 Days"
PlanningBases == {FULL, LAST30, LAST60, LAST90}

ServiceLevels == {"90%", "95%", "98%"}

\* Z_MAP, each z as the fraction it is written as (1.28 = 128/100)
Z_MAP(level) ==
    CASE level = "90%" -> <<128, 100>>
      [] level = "95%" -> <<165, 100>>
      [] level = "98%" -> <<205, 100>>

z_value(level) == Z_MAP(level)

----------------------------------------------------------------------------
(* Arithmetic helpers *)

Max(a, b) == IF a >= b THEN a ELSE b
Abs(a) == IF a >= 0 THEN a ELSE -a

\* floor division for any sign of n, d > 0 (TLC's \div floors already)
FloorDiv(n, d) == n \div d

\* cells of a column that can hold NaN
Cell(v) == <<v>>
IsNaN(c) == c = NaN
Val(c) == c[1]

\* fractions <<n, d>>, d > 0
Num(x) == x[1]
Den(x) == x[2]
Frac(n, d) == IF d > 0 THEN <<n, d>> ELSE <<-n, -d>>
FracOfInt(n) == <<n, 1>>
FracEq(x, y) == Num(x) * Den(y) = Num(y) * Den(x)
FracLt(x, y) == Num(x) * Den(y) < Num(y) * Den(x)
FracAdd(x, y) == <<Num(x) * Den(y) + Num(y) * Den(x), Den(x) * Den(y)>>
FracSub(x, y) == <<Num(x) * Den(y) - Num(y) * Den(x), Den(x) * Den(y)>>
FracMul(x, y) == <<Num(x) * Num(y), Den(x) * Den(y)>>
\* x / y for y # 0
FracDiv(x, y) == Frac(Num(x) * Den(y), Den(x) * Num(y))

RECURSIVE Gcd(_, _)
Gcd(a, b) == IF b = 0 THEN a ELSE Gcd(b, a % b)

\* the same fraction in lowest terms
Reduce(x) ==
    LET g == Gcd(Abs(Num(x)), Den(x))
    IN  <<Num(x) \div g, Den(x) \div g>>

\* a/b <= c/d for a, c >= 0 and b, d > 0, by the continued-fraction
\* expansion, so that no product is formed
RECURSIVE CfLe(_, _, _, _)
CfLe(a, b, c, d) ==
    LET q1 == a \div b
        q2 == c \div d
        r1 == a % b
        r2 == c % d
    IN  IF q1 # q2 THEN q1 < q2
        ELSE IF r1 = 0 THEN TRUE
        ELSE IF r2 = 0 THEN FALSE
        ELSE CfLe(d, r2, b, r1)

\* x <= y and x < y for fractions x, y >= 0 of any size
BigLe(x, y) == CfLe(Num(x), Den(x), Num(y), Den(y))
BigLt(x, y) == ~BigLe(y, x)

\* largest k with k*k <= n, n >= 0
Isqrt(n) == CHOOSE k \in 0..n : k * k <= n /\ (k + 1) * (k + 1) > n

\* numpy's round: to the nearest integer, a tie to the even neighbour
RoundHalfEven(x) ==
    LET f == FloorDiv(Num(x), Den(x))
        r == Num(x) - f * Den(x)       \* the fractional part, over Den(x)
    IN  IF 2 * r < Den(x) THEN f
        ELSE IF 2 * r > Den(x) THEN f + 1
        ELSE IF f % 2 = 0 THEN f ELSE f + 1

\* sum of a sequence of integers
RECURSIVE SumSeq(_)
SumSeq(s) == IF s = <<>> THEN 0 ELSE Head(s) + SumSeq(Tail(s))

\* s without the later copies of a row (DataFrame.drop_duplicates)
RECURSIVE drop_duplicates(_)
drop_duplicates(s) ==
    IF s = <<>> THEN <<>>
    ELSE LET rest == drop_duplicates(SubSeq(s, 1, Len(s) - 1))
             last == s[Len(s)]
         IN  IF \E i \in 1..Len(rest) : rest[i] = last
             THEN rest ELSE Append(rest, last)

----------------------------------------------------------------------------
(* Tables.  A table is a sequence of rows, a row is a record.              *)
(* groupby(...).sum().reset_index() lists its groups in key order, so the  *)
(* key universes below are written in that order.                          *)

Skus == <<"A", "B">>
FulfillmentTypes == <<"FBA", "FBM">>
\* a warehouse and the ship-from state it lies in; W1 and W2 share a state
States == <<"S1", "S2">>
Warehouses == <<"W1", "W2", "W3">>

Range(s) == {s[i] : i \in 1..Len(s)}

\* the elements of the set S of integers, ascending
RECURSIVE SortInts(_)
SortInts(S) ==
    IF S = {} THEN <<>>
    ELSE LET m == CHOOSE x \in S : \A y \in S : x <= y
         IN  <<m>> \o SortInts(S \ {m})

\* (Sku, Fulfillment Type) keys in groupby order
ChannelKeys ==
    [i \in 1..(Len(Skus) * Len(FulfillmentTypes)) |->
        [Sku |-> Skus[((i - 1) \div Len(FulfillmentTypes)) + 1],
         FT  |-> FulfillmentTypes[((i - 1) % Len(FulfillmentTypes)) + 1]]]

ChannelKey(r) == [Sku |-> r.Sku, FT |-> r.FT]
StateKey(r) == [Sku |-> r.Sku, FT |-> r.FT, State |-> r.State]
SiteKey(r) == [Sku |-> r.Sku, FT |-> r.FT, State |-> r.State, WH |-> r.WH]

\* the column col of table t, as a sequence
Column(t, col) == [i \in 1..Len(t) |-> t[i][col]]

\* the rows of t whose channel key is k
RowsOfChannel(t, k) == SelectSeq(t, LAMBDA r : ChannelKey(r) = k)

----------------------------------------------------------------------------
(* LOAD & CLEAN SALES, lines 144-194 *)

\* sales.dropna(subset=["Shipment Date"])
dropna(t) == SelectSeq(t, LAMBDA r : r.Ts # NaT)

CleanSales ==
    /\ pc = "clean"
    /\ sales' = dropna(sales)
    /\ pc' = IF sales' = <<>> THEN "stopped" ELSE "window"
    /\ UNCHANGED <<planning_days, service_level, planning_basis, inv,
                   uploaded_sales_days, hist_sales_df, history_window_days,
                   sku_stock_all, stock_by_ft, stock_by_site,
                   hist_sales_ft, full_sales_ft, daily_sales_ft, std_dev_ft,
                   plan_ft, site_plan>>

----------------------------------------------------------------------------
(* SALES WINDOW INFO, lines 196-221 *)

MinTs(t) == CHOOSE x \in Range(Column(t, "Ts")) :
                \A y \in Range(Column(t, "Ts")) : x <= y
MaxTs(t) == CHOOSE x \in Range(Column(t, "Ts")) :
                \A y \in Range(Column(t, "Ts")) : x >= y

\* Timedelta.days of the difference hi - lo of two timestamps
TimedeltaDays(hi, lo) == FloorDiv(hi - lo, HoursPerDay)

\* (max - min).days + 1, floored at 1
SpanDays(t) == Max(TimedeltaDays(MaxTs(t), MinTs(t)) + 1, 1)

\* the window length the planning basis names
window(basis) ==
    IF basis = LAST30 THEN 30
    ELSE IF basis = LAST60 THEN 60
    ELSE 90

\* cutoff a whole window back, without the - 1
cutoff_WholeWindow(t, basis) == MaxTs(t) - window(basis) * HoursPerDay

\* cutoff with the sign turned: overall_max + pd.Timedelta(days=window - 1)
cutoff_AfterLatest(t, basis) == MaxTs(t) + (window(basis) - 1) * HoursPerDay

\* overall_max - pd.Timedelta(days=window - 1)
cutoff(t, basis) == MaxTs(t) - (window(basis) - 1) * HoursPerDay

\* sales[sales["Shipment Date"] >= cutoff]
WindowRows(t, basis) == SelectSeq(t, LAMBDA r : r.Ts >= cutoff(t, basis))

\* hist_sales_df as lines 202-221 leave it
HistSalesDf(t, basis) ==
    IF basis = FULL THEN t
    ELSE IF WindowRows(t, basis) = <<>> THEN t
    ELSE WindowRows(t, basis)

\* history_window_days as lines 202-221 leave it
HistoryWindowDays(t, basis) ==
    IF basis = FULL THEN SpanDays(t)
    ELSE IF WindowRows(t, basis) = <<>> THEN SpanDays(t)
    ELSE SpanDays(WindowRows(t, basis))

SalesWindow ==
    /\ pc = "window"
    /\ uploaded_sales_days' = SpanDays(sales)
    /\ hist_sales_df' = HistSalesDf(sales, planning_basis)
    /\ history_window_days' = HistoryWindowDays(sales, planning_basis)
    /\ pc' = "stock"
    /\ UNCHANGED <<planning_days, service_level, planning_basis, sales, inv,
                   sku_stock_all, stock_by_ft, stock_by_site,
                   hist_sales_ft, full_sales_ft, daily_sales_ft, std_dev_ft,
                   plan_ft, site_plan>>

----------------------------------------------------------------------------
(* STOCK AGGREGATES, lines 308-329 *)

\* inv.groupby("Sku")["Ending Warehouse Balance"].sum()
SkuStockAll(t) ==
    LET keys == SelectSeq(Skus, LAMBDA k : \E i \in 1..Len(t) : t[i].Sku = k)
    IN  [i \in 1..Len(keys) |->
            [Sku |-> keys[i],
             CurStockAll |->
                SumSeq(Column(SelectSeq(t, LAMBDA r : r.Sku = keys[i]), "Bal"))]]

\* inv.groupby(["Sku", "Fulfillment Type"])["Ending Warehouse Balance"].sum()
StockByFt(t) ==
    LET keys == SelectSeq(ChannelKeys,
                    LAMBDA k : \E i \in 1..Len(t) : ChannelKey(t[i]) = k)
    IN  [i \in 1..Len(keys) |->
            [Sku |-> keys[i].Sku, FT |-> keys[i].FT,
             CurStock |-> SumSeq(Column(RowsOfChannel(t, keys[i]), "Bal"))]]

\* (Sku, Fulfillment Type, Ship From State, Warehouse Code) keys in order
SiteKeys ==
    [i \in 1..(Len(ChannelKeys) * Len(States) * Len(Warehouses)) |->
        LET c == ((i - 1) \div (Len(States) * Len(Warehouses))) + 1
            s == (((i - 1) \div Len(Warehouses)) % Len(States)) + 1
            w == ((i - 1) % Len(Warehouses)) + 1
        IN  [Sku |-> ChannelKeys[c].Sku, FT |-> ChannelKeys[c].FT,
             State |-> States[s], WH |-> Warehouses[w]]]

\* inv.groupby(["Sku", "Fulfillment Type", "Ship From State",
\*              "Warehouse Code"])["Ending Warehouse Balance"].sum()
StockBySite(t) ==
    LET keys == SelectSeq(SiteKeys,
                    LAMBDA k : \E i \in 1..Len(t) : SiteKey(t[i]) = k)
    IN  [i \in 1..Len(keys) |->
            [Sku |-> keys[i].Sku, FT |-> keys[i].FT,
             State |-> keys[i].State, WH |-> keys[i].WH,
             CurStock |->
                SumSeq(Column(SelectSeq(t, LAMBDA r : SiteKey(r) = keys[i]),
                              "Bal"))]]

\* lines 224-227 stop the run on an empty inventory table
StockAggregates ==
    /\ pc = "stock"
    /\ sku_stock_all' = SkuStockAll(inv)
    /\ stock_by_ft' = StockByFt(inv)
    /\ stock_by_site' = StockBySite(inv)
    /\ pc' = IF inv = <<>> THEN "stopped" ELSE "demand"
    /\ UNCHANGED <<planning_days, service_level, planning_basis, sales, inv,
                   uploaded_sales_days, hist_sales_df, history_window_days,
                   hist_sales_ft, full_sales_ft, daily_sales_ft, std_dev_ft,
                   plan_ft, site_plan>>

----------------------------------------------------------------------------
(* DEMAND BY SKU + CHANNEL, lines 333-357 *)

\* SalesByFt counting the rows of a group instead of adding their quantities
SalesByFt_Count(t, col) ==
    LET keys == SelectSeq(ChannelKeys,
                    LAMBDA k : \E i \in 1..Len(t) : ChannelKey(t[i]) = k)
    IN  [i \in 1..Len(keys) |->
            [Sku |-> keys[i].Sku, FT |-> keys[i].FT] @@
            (col :> Len(RowsOfChannel(t, keys[i])))]

\* t.groupby(["Sku", "Fulfillment Type"])["Quantity"].sum() under column col
SalesByFt(t, col) ==
    LET keys == SelectSeq(ChannelKeys,
                    LAMBDA k : \E i \in 1..Len(t) : ChannelKey(t[i]) = k)
    IN  [i \in 1..Len(keys) |->
            [Sku |-> keys[i].Sku, FT |-> keys[i].FT] @@
            (col :> SumSeq(Column(RowsOfChannel(t, keys[i]), "Qty")))]

\* the grouping value of a "Shipment Date": the parsed timestamp itself
ShipmentDateKey(ts) == ts

\* the daily rows of one channel: one row per distinct "Shipment Date"
DailyOfChannel(t, k) ==
    LET rows == RowsOfChannel(t, k)
        days == SortInts({ShipmentDateKey(rows[i].Ts) : i \in 1..Len(rows)})
    IN  [i \in 1..Len(days) |->
            [Sku |-> k.Sku, FT |-> k.FT, Date |-> days[i],
             Qty |-> SumSeq(Column(
                        SelectSeq(rows,
                            LAMBDA r : ShipmentDateKey(r.Ts) = days[i]),
                        "Qty"))]]

RECURSIVE ConcatDaily(_, _)
ConcatDaily(t, keys) ==
    IF keys = <<>> THEN <<>>
    ELSE DailyOfChannel(t, Head(keys)) \o ConcatDaily(t, Tail(keys))

\* hist_sales_df.groupby(["Sku", "Fulfillment Type", "Shipment Date"])
\*     ["Quantity"].sum().reset_index()
DailySalesFt(t) == ConcatDaily(t, ChannelKeys)

\* the square of Series.std() (ddof = 1) of the integers xs: NaN for fewer
\* than two values, else (n * sum(x^2) - sum(x)^2) / (n * (n - 1))
SampleVariance(xs) ==
    LET n  == Len(xs)
        s1 == SumSeq(xs)
        s2 == SumSeq([i \in 1..n |-> xs[i] * xs[i]])
    IN  IF n < 2 THEN NaN
        ELSE Cell(Reduce(<<n * s2 - s1 * s1, n * (n - 1)>>))

\* daily_sales_ft.groupby(["Sku", "Fulfillment Type"])["Quantity"].std();
\* StdSq holds the square of the standard deviation
StdDevFt(daily) ==
    LET keys == SelectSeq(ChannelKeys,
                    LAMBDA k : \E i \in 1..Len(daily) : ChannelKey(daily[i]) = k)
    IN  [i \in 1..Len(keys) |->
            [Sku |-> keys[i].Sku, FT |-> keys[i].FT,
             StdSq |-> SampleVariance(Column(RowsOfChannel(daily, keys[i]),
                                             "Qty"))]]

DemandByChannel ==
    /\ pc = "demand"
    /\ hist_sales_ft' = SalesByFt(hist_sales_df, "HistSales")
    /\ full_sales_ft' = SalesByFt(sales, "TotalSales")
    /\ daily_sales_ft' = DailySalesFt(hist_sales_df)
    /\ std_dev_ft' = StdDevFt(daily_sales_ft')
    /\ pc' = "plan"
    /\ UNCHANGED <<planning_days, service_level, planning_basis, sales, inv,
                   uploaded_sales_days, hist_sales_df, history_window_days,
                   sku_stock_all, stock_by_ft, stock_by_site,
                   plan_ft, site_plan>>

----------------------------------------------------------------------------
(* BUILD CHANNEL-LEVEL PLANNING TABLE, lines 359-422 *)

\* left.merge(right, on=["Sku", "Fulfillment Type"], how="left"): a left row
\* once per right row of its key, or once with nanRow when there is none
RECURSIVE MergeOnChannel(_, _, _)
MergeOnChannel(left, right, nanRow) ==
    IF left = <<>> THEN <<>>
    ELSE LET l == Head(left)
             m == RowsOfChannel(right, ChannelKey(l))
         IN  (IF m = <<>> THEN <<l @@ nanRow>>
              ELSE [i \in 1..Len(m) |-> l @@ m[i]])
             \o MergeOnChannel(Tail(left), right, nanRow)

\* the table t with the values of column col as cells, as a merge brings
\* them into a column that holds NaN for the rows without a match
AsCells(t, col) == [i \in 1..Len(t) |-> [t[i] EXCEPT ![col] = Cell(@)]]

\* Series.fillna(v) on column col
fillna(t, col, v) ==
    [i \in 1..Len(t) |->
        [t[i] EXCEPT ![col] = IF IsNaN(@) THEN v ELSE Val(@)]]

\* the key columns of a table
KeysOf(t) == [i \in 1..Len(t) |-> ChannelKey(t[i])]

\* base_keys without drop_duplicates
base_keys_NoDedup(hist, stock) == KeysOf(hist) \o KeysOf(stock)

\* pd.concat([hist_sales_ft keys, stock_by_ft keys]).drop_duplicates()
base_keys(hist, stock) == drop_duplicates(KeysOf(hist) \o KeysOf(stock))

\* r + sqrt(q) > t and r + sqrt(q) >= t, for fractions r, t and q >= 0
SurdGt(r, q, t) ==
    LET u == Reduce(FracSub(t, r))
    IN  IF Num(u) < 0 THEN TRUE
        ELSE IF Num(u) = 0 THEN Num(q) > 0
        ELSE BigLt(<<Num(u) * Num(u), Den(u) * Den(u)>>, q)

SurdGe(r, q, t) ==
    LET u == Reduce(FracSub(t, r))
    IN  IF Num(u) <= 0 THEN TRUE
        ELSE BigLe(<<Num(u) * Num(u), Den(u) * Den(u)>>, q)

\* whether n is numpy's round of r + sqrt(q)
IsRoundOfSurd(r, q, n) ==
    LET lo == <<2 * n - 1, 2>>
        hi == <<2 * n + 1, 2>>
    IN  \/ SurdGt(r, q, lo) /\ ~SurdGe(r, q, hi)
        \/ SurdGe(r, q, lo) /\ ~SurdGt(r, q, lo) /\ n % 2 = 0
        \/ SurdGe(r, q, hi) /\ ~SurdGt(r, q, hi) /\ n % 2 = 0

\* (r + sqrt(q)).round(0)
RoundSurd(r, q) ==
    LET base == FloorDiv(Num(r), Den(r)) + Isqrt(FloorDiv(Num(q), Den(q)))
    IN  CHOOSE n \in (base - 1)..(base + 3) : IsRoundOfSurd(r, q, n)

\* (required - current).clip(lower=0).round(0), required = base + sqrt(q)
RecommendedDispatch(base, safetySq, cur) ==
    LET r == Reduce(FracSub(base, FracOfInt(cur)))
    IN  IF ~SurdGt(r, safetySq, FracOfInt(0)) THEN 0
        ELSE RoundSurd(r, safetySq)

\* safety stock with the service level left out: stddev * sqrt(planning_days)
SafetyStockSq_UnitZ(level, stdSq, pdays) ==
    Reduce(<<Num(stdSq) * pdays, Den(stdSq)>>)

\* z_value * stddev * sqrt(planning_days), squared
SafetyStockSq(level, stdSq, pdays) ==
    LET z == z_value(level)
    IN  Reduce(<<Num(z) * Num(z) * Num(stdSq) * pdays,
                 Den(z) * Den(z) * Den(stdSq)>>)

\* replace01 as a floor at 1 instead: max(x, 1)
replace01_AsFloor(x) == IF FracLt(x, FracOfInt(1)) THEN FracOfInt(1) ELSE x

\* Series.replace(0, 1) on one value
replace01(x) == IF Num(x) = 0 THEN FracOfInt(1) ELSE x

\* stock / avg.replace(0, 1)
DaysOfCover(stock, avg) == Reduce(FracDiv(FracOfInt(stock), replace01(avg)))

\* classify_channel with the excess rule tried before the dead-stock rule
classify_channel_ExcessFirst(avg, stock, cover, pdays) ==
    IF FracLt(FracOfInt(pdays * 2), cover) THEN "Excess / Slow"
    ELSE IF Num(avg) <= 0 /\ stock > 0 THEN "Dead / No Sales"
    ELSE IF FracLt(cover, <<pdays, 2>>) THEN "At Risk (Low Stock)"
    ELSE "Healthy"

classify_channel(avg, stock, cover, pdays) ==
    IF Num(avg) <= 0 /\ stock > 0 THEN "Dead / No Sales"
    ELSE IF FracLt(cover, <<pdays, 2>>) THEN "At Risk (Low Stock)"
    ELSE IF FracLt(FracOfInt(pdays * 2), cover) THEN "Excess / Slow"
    ELSE "Healthy"

\* the computed columns of one merged, NaN-filled row, lines 383-421
PlanRow(r, udays, wdays, pdays, level) ==
    LET avg    == <<r.HistSales, wdays>>
        safety == SafetyStockSq(level, r.StdSq, pdays)
        base   == FracMul(avg, FracOfInt(pdays))
        cover  == DaysOfCover(r.CurStock, avg)
    IN  r @@
        [UploadedDays |-> udays, WindowDays |-> wdays, PlanningDays |-> pdays,
         Avg |-> avg, SafetySq |-> safety, BaseReq |-> base,
         Required |-> [Base |-> base, SafetySq |-> safety],
         Dispatch |-> RecommendedDispatch(base, safety, r.CurStock),
         Cover |-> cover,
         Tag |-> classify_channel(avg, r.CurStock, cover, pdays)]

\* plan_ft after the merges and fillna of lines 369-381
MergedPlan(hist, full, stock, std) ==
    LET m1 == MergeOnChannel(base_keys(hist, stock),
                             AsCells(hist, "HistSales"), [HistSales |-> NaN])
        m2 == MergeOnChannel(m1, AsCells(full, "TotalSales"),
                             [TotalSales |-> NaN])
        m3 == MergeOnChannel(m2, AsCells(stock, "CurStock"),
                             [CurStock |-> NaN])
        m4 == MergeOnChannel(m3, std, [StdSq |-> NaN])
    IN  fillna(fillna(fillna(fillna(m4, "HistSales", 0), "TotalSales", 0),
                      "CurStock", 0), "StdSq", FracOfInt(0))

PlanFt(hist, full, stock, std, udays, wdays, pdays, level) ==
    LET m == MergedPlan(hist, full, stock, std)
    IN  [i \in 1..Len(m) |-> PlanRow(m[i], udays, wdays, pdays, level)]

BuildPlan ==
    /\ pc = "plan"
    /\ plan_ft' = PlanFt(hist_sales_ft, full_sales_ft, stock_by_ft, std_dev_ft,
                         uploaded_sales_days, history_window_days,
                         planning_days, service_level)
    /\ pc' = "site"
    /\ UNCHANGED <<planning_days, service_level, planning_basis, sales, inv,
                   uploaded_sales_days, hist_sales_df, history_window_days,
                   sku_stock_all, stock_by_ft, stock_by_site,
                   hist_sales_ft, full_sales_ft, daily_sales_ft, std_dev_ft,
                   site_plan>>

----------------------------------------------------------------------------
(* SITE-LEVEL DEMAND & FC-WISE RECOMMENDATION, lines 428-510 *)

\* (Sku, Fulfillment Type, Ship From State) keys in groupby order
StateKeys ==
    [i \in 1..(Len(ChannelKeys) * Len(States)) |->
        [Sku   |-> ChannelKeys[((i - 1) \div Len(States)) + 1].Sku,
         FT    |-> ChannelKeys[((i - 1) \div Len(States)) + 1].FT,
         State |-> States[((i - 1) % Len(States)) + 1]]]

\* hist_sales_df.groupby(["Sku", "Fulfillment Type", "Ship From State"])
\*     ["Quantity"].sum()
site_sales_from(t) ==
    LET keys == SelectSeq(StateKeys,
                    LAMBDA k : \E i \in 1..Len(t) : StateKey(t[i]) = k)
    IN  [i \in 1..Len(keys) |->
            [Sku |-> keys[i].Sku, FT |-> keys[i].FT, State |-> keys[i].State,
             HistSalesSite |->
                SumSeq(Column(SelectSeq(t, LAMBDA r : StateKey(r) = keys[i]),
                              "Qty"))]]

\* left.merge(right, on=["Sku", "Fulfillment Type", "Ship From State"],
\*            how="left")
RECURSIVE MergeOnState(_, _, _)
MergeOnState(left, right, nanRow) ==
    IF left = <<>> THEN <<>>
    ELSE LET l == Head(left)
             m == SelectSeq(right, LAMBDA r : StateKey(r) = StateKey(l))
         IN  (IF m = <<>> THEN <<l @@ nanRow>>
              ELSE [i \in 1..Len(m) |-> l @@ m[i]])
             \o MergeOnState(Tail(left), right, nanRow)

\* plan_ft[["Sku", "Fulfillment Type", "Recommended Dispatch (Channel)",
\*          "History Sales (Channel)"]]
ChannelColumns(plan) ==
    [i \in 1..Len(plan) |->
        [Sku |-> plan[i].Sku, FT |-> plan[i].FT,
         DispatchChannel |-> Cell(plan[i].Dispatch),
         HistSalesChannel |-> Cell(plan[i].HistSales)]]

\* site_plan.groupby(["Sku", "Fulfillment Type"])["History Sales (Site)"].sum()
TotalSiteHistory(t) ==
    LET keys == SelectSeq(ChannelKeys,
                    LAMBDA k : \E i \in 1..Len(t) : ChannelKey(t[i]) = k)
    IN  [i \in 1..Len(keys) |->
            [Sku |-> keys[i].Sku, FT |-> keys[i].FT,
             TotalSiteHist |->
                Cell(SumSeq(Column(RowsOfChannel(t, keys[i]),
                                   "HistSalesSite")))]]

\* compute_share without the division by the siblings' total
compute_share_Undivided(siteSales, total) ==
    IF ~IsNaN(total) /\ Val(total) > 0
    THEN Cell(FracOfInt(siteSales)) ELSE NaN

\* total is a cell; a comparison with NaN is False
compute_share(siteSales, total) ==
    IF ~IsNaN(total) /\ Val(total) > 0
    THEN Cell(Frac(siteSales, Val(total))) ELSE NaN

\* groupby(["Sku", "Fulfillment Type"])["Warehouse Code"].transform("count")
\*     .replace(0, 1), for row r of t
count_sites(t, r) ==
    LET n == Len(RowsOfChannel(t, ChannelKey(r)))
    IN  IF n = 0 THEN 1 ELSE n

\* DemandShare with the missing shares filled by 1 instead of 1 / count
DemandShare_FillOne(siteSales, total, count) ==
    IF IsNaN(compute_share(siteSales, total)) THEN <<1, 1>>
    ELSE Val(compute_share(siteSales, total))

\* the share after fillna(1.0 / count_sites)
DemandShare(siteSales, total, count) ==
    IF IsNaN(compute_share(siteSales, total)) THEN <<1, count>>
    ELSE Val(compute_share(siteSales, total))

\* (channel dispatch * share).round(0); channelDispatch is a cell
SiteDispatch(channelDispatch, share) ==
    IF IsNaN(channelDispatch) THEN NaN
    ELSE Cell(RoundHalfEven(FracMul(FracOfInt(Val(channelDispatch)), share)))

SitePlan(stock, hist, plan, wdays) ==
    LET m1 == fillna(MergeOnState(stock,
                                  AsCells(site_sales_from(hist), "HistSalesSite"),
                                  [HistSalesSite |-> NaN]),
                     "HistSalesSite", 0)
        m2 == [i \in 1..Len(m1) |->
                  m1[i] @@
                  [AvgSite |-> <<m1[i].HistSalesSite, wdays>>,
                   CoverSite |-> DaysOfCover(m1[i].CurStock,
                                             <<m1[i].HistSalesSite, wdays>>)]]
        m3 == MergeOnChannel(m2, ChannelColumns(plan),
                             [DispatchChannel |-> NaN, HistSalesChannel |-> NaN])
        m4 == MergeOnChannel(m3, TotalSiteHistory(m3), [TotalSiteHist |-> NaN])
    IN  [i \in 1..Len(m4) |->
            LET share == DemandShare(m4[i].HistSalesSite, m4[i].TotalSiteHist,
                                     count_sites(m4, m4[i]))
            IN  m4[i] @@
                [Share |-> share,
                 DispatchSite |-> SiteDispatch(m4[i].DispatchChannel, share)]]

BuildSitePlan ==
    /\ pc = "site"
    /\ site_plan' = SitePlan(stock_by_site, hist_sales_df, plan_ft,
                             history_window_days)
    /\ pc' = "done"
    /\ UNCHANGED <<planning_days, service_level, planning_basis, sales, inv,
                   uploaded_sales_days, hist_sales_df, history_window_days,
                   sku_stock_all, stock_by_ft, stock_by_site,
                   hist_sales_ft, full_sales_ft, daily_sales_ft, std_dev_ft,
                   plan_ft>>

----------------------------------------------------------------------------
(* Inputs of a run *)

\* the smallest planning horizon and the default one (line 97)
PlanningDaysChoices == {MinPlanningDays, 60}

Sites == {[State |-> "S1", WH |-> "W1"], [State |-> "S1", WH |-> "W2"],
          [State |-> "S2", WH |-> "W3"]}

\* whole days and times of day of the shipment timestamps
SaleDays == {0, 1, 30, 60, 90}
SaleHours == {9, 17}
Timestamps == {d * HoursPerDay + h : d \in SaleDays, h \in SaleHours}

\* a sales row after lines 144-189: Qty is numeric, Ts a timestamp or NaT
SaleRow(skus, fts, states, stamps, qtys) ==
    [Sku : skus, FT : fts, State : states, Ts : stamps, Qty : qtys]

\* an inventory row after lines 246-306; Date is the snapshot date
InvRow(skus, fts, sites, dates, bals) ==
    {[Sku |-> k, FT |-> f, State |-> s.State, WH |-> s.WH, Date |-> d, Bal |-> b] :
        k \in skus, f \in fts, s \in sites, d \in dates, b \in bals}

\* the elements of the set S in one fixed order
RECURSIVE SetToSeq(_)
SetToSeq(S) ==
    IF S = {} THEN <<>>
    ELSE LET x == CHOOSE y \in S : TRUE
         IN  <<x>> \o SetToSeq(S \ {x})

\* the tables of lo..hi rows over the set rows, one table per multiset of
\* rows: the aggregates do not depend on the order of the rows, so one
\* order stands for all
TablesOver(rows, lo, hi) ==
    LET u == SetToSeq(rows)
        sorted(n) == {f \in [1..n -> 1..Len(u)] :
                        \A i \in 1..(n - 1) : f[i] <= f[i + 1]}
    IN  UNION {{[i \in 1..n |-> u[f[i]]] : f \in sorted(n)} : n \in lo..hi}

Blank == <<>>

InitWith(salesTables, invTables, days, levels, bases) ==
    /\ pc = "clean"
    /\ planning_days \in days
    /\ service_level \in levels
    /\ planning_basis \in bases
    /\ sales \in salesTables
    /\ inv \in invTables
    /\ uploaded_sales_days = 0
    /\ hist_sales_df = Blank
    /\ history_window_days = 0
    /\ sku_stock_all = Blank
    /\ stock_by_ft = Blank
    /\ stock_by_site = Blank
    /\ hist_sales_ft = Blank
    /\ full_sales_ft = Blank
    /\ daily_sales_ft = Blank
    /\ std_dev_ft = Blank
    /\ plan_ft = Blank
    /\ site_plan = Blank

Next ==
    \/ CleanSales
    \/ SalesWindow
    \/ StockAggregates
    \/ DemandByChannel
    \/ BuildPlan
    \/ BuildSitePlan

----------------------------------------------------------------------------
(* Specifications: the same run over three families of uploads *)

\* channel and site planning: one channel, two ship-from states, returns
\* (negative quantities) among the sales
PlanSales ==
    TablesOver(SaleRow({"A"}, {"FBA"}, {"S1", "S2"},
                       {9, 30 * HoursPerDay + 9}, {-1, 1, MaxQty}),
               1, MaxSales)
PlanInv ==
    TablesOver(InvRow({"A"}, {"FBA"}, Sites, {1}, {0, MaxBal, 10 * MaxBal}),
               0, MaxInv)

Init == InitWith(PlanSales, PlanInv, {MinPlanningDays}, {"95%"}, {FULL})
Spec == Init /\ [][Next]_vars

\* the sales window: every planning basis, timestamps on both sides of
\* each cutoff, two times of day, unparseable dates
WindowSales ==
    TablesOver(SaleRow({"A", "B"}, {"FBA"}, {"S1"},
                       Timestamps \cup {NaT}, {1, MaxQty}),
               1, MaxSales)
WindowInv ==
    {<<[Sku |-> "A", FT |-> "FBA", State |-> "S1", WH |-> "W1", Date |-> 1,
        Bal |-> MaxBal]>>}

InitWindow ==
    InitWith(WindowSales, WindowInv, {60}, {"95%"}, PlanningBases)
SpecWindow == InitWindow /\ [][Next]_vars

\* the stock position: several channels, sites and snapshot dates
StockSales ==
    TablesOver(SaleRow({"A", "B"}, {"FBA"}, {"S1"}, {9}, {1}), 1, 2)
StockSites == {[State |-> "S1", WH |-> "W1"], [State |-> "S2", WH |-> "W3"]}
StockInv ==
    TablesOver(InvRow({"A"}, {"FBA", "FBM"}, StockSites, {1, 2}, {1, MaxBal})
               \cup InvRow({"B"}, {"FBA"}, StockSites, {1, 2}, {1, MaxBal}),
               0, MaxInv)

InitStock ==
    InitWith(StockSales, StockInv, PlanningDaysChoices, {"90%", "98%"}, {FULL})
SpecStock == InitStock /\ [][Next]_vars

\* safety stock and site allocation: every service level, both planning
\* horizons, shipments a month apart so that the daily demand varies, and
\* sites that share a ship-from state
SafetySales ==
    TablesOver(SaleRow({"A"}, {"FBA"}, {"S1", "S2"},
                       {9, 30 * HoursPerDay + 9}, {1, MaxQty}),
               1, MaxSales)
SafetyInv == TablesOver(InvRow({"A"}, {"FBA"}, Sites, {1}, {0, MaxBal}), 1, 2)

InitSafety ==
    InitWith(SafetySales, SafetyInv, PlanningDaysChoices, ServiceLevels, {FULL})
SpecSafety == InitSafety /\ [][Next]_vars

----------------------------------------------------------------------------
(* Stages a run has passed *)

WindowDone == pc \in {"stock", "demand", "plan", "site", "done"}
StockDone == pc \in {"demand", "plan", "site", "done"}
PlanDone == pc \in {"site", "done"}
Done == pc = "done"

\* sum of a sequence of fractions
RECURSIVE FracSum(_)
FracSum(s) == IF s = <<>> THEN FracOfInt(0)
              ELSE Reduce(FracAdd(Head(s), FracSum(Tail(s))))

----------------------------------------------------------------------------
(* C1 *)

\* the rows of the inventory table that are the most recent snapshot of
\* their (Sku, Warehouse Code) pair
LatestSnapshot(t) ==
    SelectSeq(t, LAMBDA r :
        \A j \in 1..Len(t) :
            (t[j].Sku = r.Sku /\ t[j].WH = r.WH) => t[j].Date <= r.Date)

\* C1: current stock at SKU level, at SKU + channel level and at site level
\* is the sum of the ending balances of the most recent snapshot of each
\* (Sku, Warehouse Code) pair; older snapshots contribute nothing.
C1_StockFromLatestSnapshot ==
    StockDone =>
        /\ \A i \in 1..Len(sku_stock_all) :
              sku_stock_all[i].CurStockAll =
                SumSeq(Column(SelectSeq(LatestSnapshot(inv),
                            LAMBDA r : r.Sku = sku_stock_all[i].Sku), "Bal"))
        /\ \A i \in 1..Len(stock_by_ft) :
              stock_by_ft[i].CurStock =
                SumSeq(Column(RowsOfChannel(LatestSnapshot(inv),
                            ChannelKey(stock_by_ft[i])), "Bal"))
        /\ \A i \in 1..Len(stock_by_site) :
              stock_by_site[i].CurStock =
                SumSeq(Column(SelectSeq(LatestSnapshot(inv),
                            LAMBDA r : SiteKey(r) = SiteKey(stock_by_site[i])),
                        "Bal"))

----------------------------------------------------------------------------
(* C2 *)

\* required - current <= 0, required = Base + sqrt(SafetySq)
StockCoversRequirement(r) ==
    ~SurdGt(FracSub(r.Required.Base, FracOfInt(r.CurStock)),
            r.Required.SafetySq, FracOfInt(0))

\* C2: every recommended dispatch quantity is >= 0: a channel row whose
\* current stock reaches its required stock gets 0, and every site-level
\* allocation derived from a channel row is >= 0 as well.
C2_DispatchNeverNegative ==
    Done =>
        /\ \A i \in 1..Len(plan_ft) :
              /\ plan_ft[i].Dispatch >= 0
              /\ StockCoversRequirement(plan_ft[i]) => plan_ft[i].Dispatch = 0
        /\ \A i \in 1..Len(site_plan) :
              /\ ~IsNaN(site_plan[i].DispatchSite)
              /\ Val(site_plan[i].DispatchSite) >= 0

----------------------------------------------------------------------------
(* C3 *)

\* cover = stock / max(avg, 1)
CoverFlooredAtOne(cover, stock, avg) ==
    IF FracLt(avg, FracOfInt(1)) THEN FracEq(cover, FracOfInt(stock))
    ELSE FracEq(FracMul(cover, avg), FracOfInt(stock))

\* cover = stock / (1 if avg = 0 else avg)
CoverReplacesZero(cover, stock, avg) ==
    IF Num(avg) = 0 THEN FracEq(cover, FracOfInt(stock))
    ELSE FracEq(FracMul(cover, avg), FracOfInt(stock))

\* the average that enters the base requirement is the unfloored one
AverageUnchanged(r) ==
    /\ FracEq(r.Avg, <<r.HistSales, r.WindowDays>>)
    /\ FracEq(r.BaseReq, <<r.HistSales * r.PlanningDays, r.WindowDays>>)

\* C3 as stated: days of cover = current stock / max(avg daily sale, 1), the
\* denominator being 1 for every average below 1 (zero and fractional
\* averages between 0 and 1 alike), at channel and site level, with the
\* average used in the required stock left unchanged.  Stated for the runs
\* whose sales quantities are all non-negative, where no average is
\* negative.
C3_CoverDenominatorFlooredAtOne ==
    (Done /\ \A k \in 1..Len(sales) : sales[k].Qty >= 0) =>
        /\ \A i \in 1..Len(plan_ft) :
              /\ CoverFlooredAtOne(plan_ft[i].Cover, plan_ft[i].CurStock,
                                   plan_ft[i].Avg)
              /\ AverageUnchanged(plan_ft[i])
        /\ \A i \in 1..Len(site_plan) :
              CoverFlooredAtOne(site_plan[i].CoverSite, site_plan[i].CurStock,
                                site_plan[i].AvgSite)

\* C3 as amended: days of cover = current stock / d, where d is 1 when the
\* average daily sale is exactly 0 and the average itself otherwise (a
\* fractional average between 0 and 1 is used as it is, and so is a
\* negative one), at channel and site level, with the average used in the
\* required stock left unchanged.
C3_CoverDenominatorReplacesZero ==
    Done =>
        /\ \A i \in 1..Len(plan_ft) :
              /\ CoverReplacesZero(plan_ft[i].Cover, plan_ft[i].CurStock,
                                   plan_ft[i].Avg)
              /\ AverageUnchanged(plan_ft[i])
        /\ \A i \in 1..Len(site_plan) :
              CoverReplacesZero(site_plan[i].CoverSite, site_plan[i].CurStock,
                                site_plan[i].AvgSite)

\* a finished run with a stocked channel row whose average is strictly
\* between 0 and 1, so that its cover is more than its stock
C3_FractionalAverageRow ==
    /\ Done
    /\ \E i \in 1..Len(plan_ft) :
          /\ plan_ft[i].HistSales > 0
          /\ plan_ft[i].HistSales < plan_ft[i].WindowDays
          /\ plan_ft[i].CurStock > 0
          /\ FracLt(FracOfInt(plan_ft[i].CurStock), plan_ft[i].Cover)

----------------------------------------------------------------------------
(* C6 *)

\* the tag the four rules give, first match first
TagByRules(r) ==
    IF Num(r.Avg) <= 0 /\ r.CurStock > 0 THEN "Dead / No Sales"
    ELSE IF 2 * Num(r.Cover) < r.PlanningDays * Den(r.Cover)
         THEN "At Risk (Low Stock)"
    ELSE IF Num(r.Cover) > 2 * r.PlanningDays * Den(r.Cover)
         THEN "Excess / Slow"
    ELSE "Healthy"

\* C6: the health tag of every planning row is the first match of: dead
\* (avg <= 0 and stock > 0), at risk (cover < 0.5 x horizon), excess
\* (cover > 2 x horizon), healthy; a row without sales and with stock is
\* always tagged dead, whatever its cover.
C6_HealthTagFirstMatch ==
    PlanDone =>
        \A i \in 1..Len(plan_ft) :
            /\ plan_ft[i].PlanningDays = planning_days
            /\ plan_ft[i].Tag = TagByRules(plan_ft[i])
            /\ (plan_ft[i].HistSales = 0 /\ plan_ft[i].CurStock > 0)
                   => plan_ft[i].Tag = "Dead / No Sales"

\* a row tagged dead whose cover is above twice the planning horizon
C6_DeadRowWithExcessCover ==
    /\ PlanDone
    /\ \E i \in 1..Len(plan_ft) :
          /\ plan_ft[i].HistSales = 0
          /\ plan_ft[i].CurStock > 0
          /\ Num(plan_ft[i].Cover) > 2 * planning_days * Den(plan_ft[i].Cover)
          /\ plan_ft[i].Tag = "Dead / No Sales"

----------------------------------------------------------------------------
(* C9 and C10 *)

\* the site rows of the parent group of site row r
Siblings(r) == RowsOfChannel(site_plan, ChannelKey(r))

\* C9: within one parent (Sku, channel) of N site rows, a row's demand
\* share is its history sales over the siblings' sum when that sum is > 0,
\* and 1/N when the sum is 0; in both cases the shares of the parent's rows
\* sum to 1.
C9_DemandShares ==
    Done =>
        \A i \in 1..Len(site_plan) :
            LET r == site_plan[i]
                n == Len(Siblings(r))
                total == SumSeq(Column(Siblings(r), "HistSalesSite"))
            IN  /\ n >= 1
                /\ Den(r.Share) > 0
                /\ total > 0 => FracEq(r.Share, <<r.HistSalesSite, total>>)
                /\ total = 0 => FracEq(r.Share, <<1, n>>)
                /\ total >= 0 =>
                      FracEq(FracSum(Column(Siblings(r), "Share")), FracOfInt(1))

\* a finished run where a parent with two or more sites and no site
\* history splits equally
C9_EqualSplit ==
    /\ Done
    /\ \E i \in 1..Len(site_plan) :
          /\ Len(Siblings(site_plan[i])) >= 2
          /\ SumSeq(Column(Siblings(site_plan[i]), "HistSalesSite")) = 0
          /\ Val(site_plan[i].DispatchChannel) > 0
          /\ Den(Reduce(site_plan[i].Share)) = Len(Siblings(site_plan[i]))

\* the sum of the allocated quantities of the siblings of r
AllocatedSum(r) ==
    SumSeq([j \in 1..Len(Siblings(r)) |-> Val(Siblings(r)[j].DispatchSite)])

\* C10: for every parent with recommended quantity Q and N site rows, the
\* sum of the rounded site allocations differs from Q by at most N.
C10_AllocationWithinN ==
    Done =>
        \A i \in 1..Len(site_plan) :
            LET r == site_plan[i]
            IN  /\ ~IsNaN(r.DispatchChannel)
                /\ \A j \in 1..Len(Siblings(r)) :
                      ~IsNaN(Siblings(r)[j].DispatchSite)
                /\ Abs(AllocatedSum(r) - Val(r.DispatchChannel))
                      <= Len(Siblings(r))

\* a finished run where rounding makes the allocations of two or more
\* sites miss the parent quantity
C10_RoundingMisses ==
    /\ Done
    /\ \E i \in 1..Len(site_plan) :
          /\ Len(Siblings(site_plan[i])) >= 2
          /\ Val(site_plan[i].DispatchChannel) > 0
          /\ AllocatedSum(site_plan[i]) # Val(site_plan[i].DispatchChannel)

----------------------------------------------------------------------------
(* C4 and C5 *)

\* the window length, in days, of a rolling planning basis
WindowLength(basis) ==
    CASE basis = LAST30 -> 30
      [] basis = LAST60 -> 60
      [] basis = LAST90 -> 90

\* whether sales row r lies in the window the basis selects: every row for
\* full history, else the rows dated at or after the latest shipment date
\* of the whole table less (window - 1) days
InWindow(r, basis) ==
    \/ basis = FULL
    \/ /\ basis # FULL
       /\ r.Ts + (WindowLength(basis) - 1) * HoursPerDay >= MaxTs(sales)

\* the quantities of the rows of channel k inside the window, added up
WindowSalesOf(k) ==
    SumSeq(Column(SelectSeq(sales,
                      LAMBDA r : ChannelKey(r) = k /\ InWindow(r, planning_basis)),
                  "Qty"))

\* the quantities of the in-window rows shipped from the state of site
\* row r, for its channel, added up
WindowSalesOfState(r) ==
    SumSeq(Column(SelectSeq(sales,
                      LAMBDA x : StateKey(x) = StateKey(r)
                                 /\ InWindow(x, planning_basis)),
                  "Qty"))

\* C4: once the planning table is built, under each of the four planning
\* bases, history_window_days >= 1 and every planning row (channel rows,
\* and site rows once they are built) has avg daily sale = total history
\* sales / history_window_days, the total being the sum of the quantities
\* of the group's rows inside the selected window.
C4_AverageOverWindow ==
    PlanDone =>
        /\ history_window_days >= 1
        /\ \A i \in 1..Len(plan_ft) :
              /\ plan_ft[i].HistSales = WindowSalesOf(ChannelKey(plan_ft[i]))
              /\ Den(plan_ft[i].Avg) > 0
              /\ FracEq(plan_ft[i].Avg,
                        <<WindowSalesOf(ChannelKey(plan_ft[i])),
                          history_window_days>>)
        /\ \A i \in 1..Len(site_plan) :
              /\ Den(site_plan[i].AvgSite) > 0
              /\ FracEq(site_plan[i].AvgSite,
                        <<WindowSalesOfState(site_plan[i]),
                          history_window_days>>)

\* a planned run on a rolling basis that leaves a sales row out of the
\* window, with a window of several days and two rows of different totals
C4_RollingWindowRun ==
    /\ PlanDone
    /\ planning_basis # FULL
    /\ \E k \in 1..Len(sales) : ~InWindow(sales[k], planning_basis)
    /\ \E i \in 1..Len(plan_ft) :
          plan_ft[i].HistSales > 0 /\ plan_ft[i].HistSales # plan_ft[i].TotalSales

----------------------------------------------------------------------------
(* C7 *)

\* the calendar day of a timestamp
CalendarDay(ts) == ts \div HoursPerDay

\* the distinct calendar days on which channel k has in-window sales
SaleDaysOf(k) ==
    {CalendarDay(hist_sales_df[i].Ts) :
        i \in {j \in 1..Len(hist_sales_df) : ChannelKey(hist_sales_df[j]) = k}}

\* C7: every group whose in-window sales fall on fewer than 2 distinct
\* calendar days (whatever the number of rows and their times of day, and
\* also a group without sales) has demand stddev 0, and so safety stock 0.
C7_FewSaleDaysZeroStd ==
    PlanDone =>
        \A i \in 1..Len(plan_ft) :
            Cardinality(SaleDaysOf(ChannelKey(plan_ft[i]))) < 2 =>
                /\ Num(plan_ft[i].StdSq) = 0
                /\ Num(plan_ft[i].SafetySq) = 0

----------------------------------------------------------------------------
(* C8 *)

HasInventory(k) == \E j \in 1..Len(inv) : ChannelKey(inv[j]) = k
HasWindowSales(k) ==
    \E j \in 1..Len(hist_sales_df) : ChannelKey(hist_sales_df[j]) = k

\* the number of planning rows of key k
PlanRowsOf(k) == Len(RowsOfChannel(plan_ft, k))

\* C8: every group with a sales row in the history window and no inventory
\* row is in the planning table with current stock 0, and the planning
\* table holds exactly one row per grouping key of sales or inventory.
C8_MissingInventoryKept ==
    PlanDone =>
        /\ \A c \in 1..Len(ChannelKeys) :
              PlanRowsOf(ChannelKeys[c]) =
                IF HasWindowSales(ChannelKeys[c]) \/ HasInventory(ChannelKeys[c])
                THEN 1 ELSE 0
        /\ \A i \in 1..Len(plan_ft) :
              (HasWindowSales(ChannelKey(plan_ft[i]))
                 /\ ~HasInventory(ChannelKey(plan_ft[i])))
                => plan_ft[i].CurStock = 0

\* a planned run with a group that has sales and no inventory next to a
\* group that has both
C8_SalesWithoutInventory ==
    /\ PlanDone
    /\ \E i, j \in 1..Len(plan_ft) :
          /\ HasWindowSales(ChannelKey(plan_ft[i]))
          /\ ~HasInventory(ChannelKey(plan_ft[i]))
          /\ plan_ft[i].CurStock = 0
          /\ HasWindowSales(ChannelKey(plan_ft[j]))
          /\ HasInventory(ChannelKey(plan_ft[j]))
          /\ plan_ft[j].CurStock > 0

----------------------------------------------------------------------------
(* C11 *)

\* the planning row of the channel of site row r
PlanRowOf(r) == RowsOfChannel(plan_ft, ChannelKey(r))[1]

\* numpy's round of s * (r + sqrt(q)), for fractions s, r and q >= 0
RoundScaledSurd(s, r, q) ==
    LET a  == <<Abs(Num(s)), Den(s)>>
        sq == Reduce(<<Num(a) * Num(a) * Num(q), Den(a) * Den(a) * Den(q)>>)
        n  == RoundSurd(Reduce(FracMul(a, r)), sq)
    IN  IF Num(s) >= 0 THEN n ELSE -n

\* round(max(0, required - current) * share) of site row r, the requirement
\* and the stock being those of the row's channel: rounded once
RoundedOnce(r) ==
    LET p == PlanRowOf(r)
        d == Reduce(FracSub(p.Required.Base, FracOfInt(p.CurStock)))
    IN  IF ~SurdGt(d, p.Required.SafetySq, FracOfInt(0)) THEN 0
        ELSE RoundScaledSurd(r.Share, d, p.Required.SafetySq)

\* C11: in a finished run every site row's Recommended Dispatch (Site) is
\* its demand share times the unrounded max(0, required stock - current
\* stock) of its channel, rounded to the nearest whole unit once.
C11_SiteDispatchRoundedOnce ==
    Done =>
        \A i \in 1..Len(site_plan) :
            ~IsNaN(site_plan[i].DispatchChannel)
                => Val(site_plan[i].DispatchSite) = RoundedOnce(site_plan[i])

----------------------------------------------------------------------------
(* C12 *)

\* the z of the selected service level, in hundredths
ZHundredths ==
    IF service_level = "90%" THEN 128
    ELSE IF service_level = "95%" THEN 165
    ELSE 205

\* (z x stddev x sqrt(horizon)) squared, for the variance v of the demand
ZStdSqrtHorizonSq(v) ==
    Reduce(<<ZHundredths * ZHundredths * Num(v) * planning_days,
             100 * 100 * Den(v)>>)

\* C12: in every planning row safety stock = z x demand stddev x
\* sqrt(planning days), with z = 1.28, 1.65, 2.05 for the service levels
\* 90%, 95%, 98%, and required stock = avg daily sale x planning days +
\* safety stock; z = 1.65, stddev = 10, planning days = 30 give
\* 1.65 * 10 * sqrt(30). The safety stock is compared by its square.
C12_SafetyStockFormula ==
    /\ SafetyStockSq("95%", <<10 * 10, 1>>, 30)
          = Reduce(<<165 * 165 * 30, 100>>)
    /\ PlanDone =>
          \A i \in 1..Len(plan_ft) :
              /\ service_level \in {"90%", "95%", "98%"}
              /\ plan_ft[i].SafetySq = ZStdSqrtHorizonSq(plan_ft[i].StdSq)
              /\ FracEq(plan_ft[i].BaseReq,
                        <<Num(plan_ft[i].Avg) * planning_days,
                          Den(plan_ft[i].Avg)>>)
              /\ plan_ft[i].Required.Base = plan_ft[i].BaseReq
              /\ plan_ft[i].Required.SafetySq = plan_ft[i].SafetySq

\* a planned run at the 98% service level over 60 days whose demand varies
\* from day to day, so that the safety stock is not 0
C12_VaryingDemandRow ==
    /\ PlanDone
    /\ service_level = "98%"
    /\ planning_days = 60
    /\ \E i \in 1..Len(plan_ft) :
          /\ Num(plan_ft[i].StdSq) > 0
          /\ Num(plan_ft[i].SafetySq) > 0
          /\ Num(plan_ft[i].Avg) > 0

----------------------------------------------------------------------------
(* C13 *)

\* the rows of the cleaned sales table dated at its latest shipment date
LatestRows == SelectSeq(sales, LAMBDA r : r.Ts = MaxTs(sales))

\* C13: once the window is chosen for a sales table that kept a row, under
\* each rolling basis (30, 60, 90 days) the filtered subset is not empty,
\* it holds every row dated at the latest shipment date, and the history
\* subset is that filtered subset: the fall-back to full history on an
\* empty window is not taken.
C13_WindowNeverEmpty ==
    (WindowDone /\ planning_basis # FULL) =>
        /\ sales # <<>>
        /\ WindowRows(sales, planning_basis) # <<>>
        /\ hist_sales_df = WindowRows(sales, planning_basis)
        /\ \A k \in 1..Len(LatestRows) :
              \E j \in 1..Len(hist_sales_df) : hist_sales_df[j] = LatestRows[k]
        /\ history_window_days <= window(planning_basis)

\* a run on the last 90 days whose sales reach further back than the
\* window, so that the subset is a proper part of the table
C13_OlderRowsLeftOut ==
    /\ WindowDone
    /\ planning_basis = LAST90
    /\ uploaded_sales_days > 90
    /\ Len(hist_sales_df) >= 1
    /\ Len(hist_sales_df) < Len(sales)

----------------------------------------------------------------------------
(* C14 *)

NonNegativeSales == \A k \in 1..Len(sales) : sales[k].Qty >= 0

\* History Sales (Site) added up over the site rows of the channel of r
SiteHistorySum(r) == SumSeq(Column(Siblings(r), "HistSalesSite"))

\* C14: in a finished run over non-negative sales quantities, for every
\* (Sku, channel) group of the site table the History Sales (Site) of the
\* group's rows add up to no more than the group's History Sales
\* (Channel): no sale is counted at more than one site row.
C14_SiteHistoryWithinChannel ==
    (Done /\ NonNegativeSales) =>
        \A i \in 1..Len(site_plan) :
            ~IsNaN(site_plan[i].HistSalesChannel)
                => SiteHistorySum(site_plan[i])
                     <= Val(site_plan[i].HistSalesChannel)

====
